---- MODULE Spec2Model ----
(***************************************************************************)
(* Query / response data model of learning/data_types.py.                  *)
(*                                                                         *)
(* The heap holds the Query objects and the QueryWithResponse objects that *)
(* have been constructed.  A response object refers to its query by heap   *)
(* index (Python stores a reference, not a copy).  A trajectory carries no *)
(* information this module looks at, so a slate of n trajectories is the   *)
(* sequence <<1, ..., n>>.                                                 *)
(***************************************************************************)
EXTENDS Integers, Sequences, FiniteSets, TLC

VARIABLES
  queries,    \* the Query objects: [kind, slate, K, response_set]
  responses,  \* the QueryWithResponse objects: [kind, query, response]
  lastCall,   \* the most recent call: its arguments, outcome and returned object
  viz,        \* the locals of the visualize() call in progress, if any
  stdin       \* the line input() delivered last

vars == <<queries, responses, lastCall, viz, stdin>>

\* ---------------------------------------------------------------- bounds
MaxK == 3
\* objects (queries and responses together) on the heap
MaxObjects == 2

\* ------------------------------------------------------- general helpers
Range(s) == {s[i] : i \in 1..Len(s)}

RECURSIVE Factorial(_)
Factorial(n) == IF n <= 0 THEN 1 ELSE n * Factorial(n - 1)

IsPermutation(r, K) == Len(r) = K /\ Range(r) = 0..(K - 1)

\* ------------------------------------------------ external collaborators
\* A slate (list of Trajectory or TrajectorySet) holds at least one item.
Slates == {[i \in 1..n |-> i] : n \in 1..MaxK}

\* TrajectorySet(new_slate).size : the item count
TrajectorySetSize(slate) == Len(slate)

\* --------------------------------------------------------- numpy helpers
\* np.arange(K) : the array 0, 1, ..., K-1
arange(K) == [i \in 1..K |-> i - 1]

RECURSIVE Flatten(_)
Flatten(ss) == IF ss = <<>> THEN <<>> ELSE Head(ss) \o Flatten(Tail(ss))

RemoveAt(s, i) == SubSeq(s, 1, i - 1) \o SubSeq(s, i + 1, Len(s))

\* itertools.permutations(pool) : every ordering of pool, in lexicographic
\* order of the positions
permutations_rotations(pool) ==
  [i \in 1..Len(pool) |-> SubSeq(pool, i, Len(pool)) \o SubSeq(pool, 1, i - 1)]
RECURSIVE permutations(_)
permutations(pool) ==
  IF pool = <<>> THEN << <<>> >>
  ELSE Flatten([i \in 1..Len(pool) |->
         LET rest == permutations(RemoveAt(pool, i))
         IN  [j \in 1..Len(rest) |-> <<pool[i]>> \o rest[j]]])

\* `el in arr` for a one-dimensional array and a scalar: (arr == el).any()
contains1d(arr, el) == \E i \in 1..Len(arr) : arr[i] = el

\* `el in arr` for a two-dimensional array and a sequence as long as a row:
\* arr == el broadcasts el over the rows and compares element by element,
\* and .any() holds as soon as one element matches.
contains2d(arr, el) ==
  \E i \in 1..Len(arr) : \E j \in 1..Len(el) : arr[i][j] = el[j]

\* np.setdiff1d(ar1, ar2): the sorted unique values of ar1 (flattened) that
\* are not in ar2
RECURSIVE SortedSeq(_)
SortedSeq(S) ==
  IF S = {} THEN <<>>
  ELSE LET m == CHOOSE x \in S : \A y \in S : x <= y
       IN  <<m>> \o SortedSeq(S \ {m})

setdiff1d(ar1, ar2) == SortedSeq(Range(Flatten(ar1)) \ Range(ar2))

\* ----------------------------------------------------- int() / isinteger
Whitespace == {" "}
Digits == {"0", "1", "2", "3", "4", "5", "6", "7", "8", "9"}
DigitChars == <<"0", "1", "2", "3", "4", "5", "6", "7", "8", "9">>
DigitVal(c) == (CHOOSE i \in 1..10 : DigitChars[i] = c) - 1

RECURSIVE lstrip(_)
lstrip(s) == IF s # <<>> /\ Head(s) \in Whitespace THEN lstrip(Tail(s)) ELSE s

RECURSIVE rstrip(_)
rstrip(s) ==
  IF s # <<>> /\ s[Len(s)] \in Whitespace
  THEN rstrip(SubSeq(s, 1, Len(s) - 1)) ELSE s

\* the digit part of an integer literal: digits, with single underscores
\* allowed between two digits
ValidDigits(d) ==
  /\ d # <<>>
  /\ \A i \in 1..Len(d) :
       \/ d[i] \in Digits
       \/ /\ d[i] = "_"
          /\ i > 1
          /\ i < Len(d)
          /\ d[i - 1] \in Digits
          /\ d[i + 1] \in Digits

RECURSIVE DigitsValue(_, _)
DigitsValue(d, acc) ==
  IF d = <<>> THEN acc
  ELSE DigitsValue(Tail(d),
                   IF Head(d) = "_" THEN acc ELSE 10 * acc + DigitVal(Head(d)))

\* int(text) of a str: surrounding whitespace is stripped, one optional sign,
\* then the digits.  ok = FALSE stands for ValueError.
int(text) ==
  LET t == rstrip(lstrip(text))
      signed == t # <<>> /\ Head(t) \in {"+", "-"}
      body == IF signed THEN Tail(t) ELSE t
      sgn == IF signed /\ Head(t) = "-" THEN -1 ELSE 1
  IN  IF ValidDigits(body)
      THEN [ok |-> TRUE, value |-> sgn * DigitsValue(body, 0)]
      ELSE [ok |-> FALSE, value |-> 0]

isinteger(input) == int(input).ok

\* ------------------------------------------------------------ the objects
\* object.__new__: no attribute is set yet (K = -1 marks "no attribute")
NewObject(kind) == [kind |-> kind, slate |-> <<>>, K |-> -1, response_set |-> <<>>]

\* QueryWithResponse.__init__(self, query): exactly one argument after self;
\* any other number of positional arguments is a TypeError.
QueryWithResponse_init(kind, args) ==
  IF Len(args) = 1
  THEN [ok |-> TRUE, query |-> args[1]]
  ELSE [ok |-> FALSE, query |-> 0]

PreferenceQuery_slate_setter_stale(self, new_slate) ==
  [self EXCEPT !.slate = new_slate,
               !.K = TrajectorySetSize(new_slate),
               !.response_set = IF self.K = -1
                                THEN arange(TrajectorySetSize(new_slate))
                                ELSE self.response_set]
PreferenceQuery_slate_setter(self, new_slate) ==
  [self EXCEPT !.slate = new_slate,
               !.K = TrajectorySetSize(new_slate),
               !.response_set = arange(TrajectorySetSize(new_slate))]

WeakComparisonQuery_slate_setter(self, new_slate) ==
  [self EXCEPT !.slate = new_slate,
               !.K = TrajectorySetSize(new_slate),
               !.response_set = <<-1, 0, 1>>]

FullRankingQuery_slate_setter(self, new_slate) ==
  [self EXCEPT !.slate = new_slate,
               !.K = TrajectorySetSize(new_slate),
               !.response_set = permutations(arange(TrajectorySetSize(new_slate)))]

slate_setter(self, new_slate) ==
  CASE self.kind = "PreferenceQuery" -> PreferenceQuery_slate_setter(self, new_slate)
    [] self.kind = "WeakComparisonQuery" -> WeakComparisonQuery_slate_setter(self, new_slate)
    [] self.kind = "FullRankingQuery" -> FullRankingQuery_slate_setter(self, new_slate)

\* the assertions of the constructors
PreferenceQuery_assert_K_lax(K) == K >= 1
PreferenceQuery_assert_K(K) == K >= 2
WeakComparisonQuery_assert_K(K) == K = 2
FullRankingQuery_assert_K(K) == K >= 2

Preference_assert_upper_only(query, response) == response < query.K
Preference_assert(query, response) == contains1d(query.response_set, response)
WeakComparison_assert(query, response) == contains1d(query.response_set, response)
FullRanking_assert(query, response) == contains2d(query.response_set, response)

\* ------------------------------------------------------------------ inputs
ResponseInts == (-2)..(MaxK + 1)
\* the rankings handed to FullRanking: every permutation of 0..K-1, and the
\* constant sequences <<c, ..., c>> for c in 0..K (a repeated index; for c = K
\* an index outside the slate)
RankingInputs(K) ==
  {p \in [1..K -> 0..(K - 1)] : \A i, j \in 1..K : p[i] = p[j] => i = j}
  \cup {[i \in 1..K |-> c] : c \in 0..K}

NoCall == [op |-> "None", q |-> 0, arg |-> <<>>, outcome |-> "None", ret |-> 0]
NoSelection == [isNone |-> TRUE, text |-> <<>>]
\* no visualize() call is running.  ret is the returned int of the single-choice
\* prompts, ret_array the returned np.array(response) of the ranking prompt.
Idle == [pc |-> "idle", q |-> 0, response |-> <<>>, i |-> 0,
         selection |-> NoSelection, ret |-> 0, ret_array |-> <<>>]

Init ==
  /\ queries = <<>>
  /\ responses = <<>>
  /\ lastCall = NoCall
  /\ viz = Idle
  /\ stdin = <<>>

\* ---------------------------------------------------- query construction
NewQuery(kind, slate, accepted) ==
  /\ viz.pc = "idle"
  /\ Len(queries) + Len(responses) < MaxObjects
  /\ LET self == slate_setter(NewObject(kind), slate)
     IN  IF accepted
         THEN /\ queries' = Append(queries, self)
              /\ lastCall' = [op |-> kind, q |-> 0, arg |-> slate,
                              outcome |-> "ok", ret |-> Len(queries) + 1]
         ELSE /\ queries' = queries
              /\ lastCall' = [op |-> kind, q |-> 0, arg |-> slate,
                              outcome |-> "AssertionError", ret |-> 0]
  /\ UNCHANGED <<responses, viz, stdin>>

PreferenceQuery_init(slate) ==
  NewQuery("PreferenceQuery", slate,
           PreferenceQuery_assert_K(
             PreferenceQuery_slate_setter(NewObject("PreferenceQuery"), slate).K))

WeakComparisonQuery_init(slate) ==
  NewQuery("WeakComparisonQuery", slate,
           WeakComparisonQuery_assert_K(
             WeakComparisonQuery_slate_setter(NewObject("WeakComparisonQuery"), slate).K))

FullRankingQuery_init(slate) ==
  NewQuery("FullRankingQuery", slate,
           FullRankingQuery_assert_K(
             FullRankingQuery_slate_setter(NewObject("FullRankingQuery"), slate).K))

\* query.slate = new_slate on an existing query
SetSlate(q, new_slate) ==
  /\ viz.pc = "idle"
  /\ q \in 1..Len(queries)
  /\ queries' = [queries EXCEPT ![q] = slate_setter(@, new_slate)]
  /\ lastCall' = [op |-> "slate.setter", q |-> q, arg |-> new_slate,
                  outcome |-> "ok", ret |-> q]
  /\ UNCHANGED <<responses, viz, stdin>>

\* -------------------------------------------------- response construction
NewResponse(kind, q, response, super, asserted) ==
  /\ viz.pc = "idle"
  /\ Len(queries) + Len(responses) < MaxObjects
  /\ IF ~super.ok
     THEN /\ responses' = responses
          /\ lastCall' = [op |-> kind, q |-> q, arg |-> response,
                          outcome |-> "TypeError", ret |-> 0]
     ELSE IF ~asserted
     THEN /\ responses' = responses
          /\ lastCall' = [op |-> kind, q |-> q, arg |-> response,
                          outcome |-> "AssertionError", ret |-> 0]
     ELSE /\ responses' = Append(responses,
                 [kind |-> kind, query |-> super.query, response |-> response])
          /\ lastCall' = [op |-> kind, q |-> q, arg |-> response,
                          outcome |-> "ok", ret |-> Len(responses) + 1]
  /\ UNCHANGED <<queries, viz, stdin>>

Preference_init(q, response) ==
  /\ q \in 1..Len(queries)
  /\ queries[q].kind = "PreferenceQuery"
  /\ NewResponse("Preference", q, response,
                 QueryWithResponse_init("Preference", <<q>>),
                 Preference_assert(queries[q], response))

WeakComparison_init(q, response) ==
  /\ q \in 1..Len(queries)
  /\ queries[q].kind = "WeakComparisonQuery"
  /\ NewResponse("WeakComparison", q, response,
                 QueryWithResponse_init("WeakComparison", <<q, response>>),
                 WeakComparison_assert(queries[q], response))

FullRanking_init(q, response) ==
  /\ q \in 1..Len(queries)
  /\ queries[q].kind = "FullRankingQuery"
  /\ NewResponse("FullRanking", q, response,
                 QueryWithResponse_init("FullRanking", <<q>>),
                 FullRanking_assert(queries[q], response))

Next ==
  \/ \E slate \in Slates : PreferenceQuery_init(slate)
  \/ \E slate \in Slates : WeakComparisonQuery_init(slate)
  \/ \E slate \in Slates : FullRankingQuery_init(slate)
  \/ \E q \in 1..Len(queries) : \E slate \in Slates : SetSlate(q, slate)
  \/ \E q \in 1..Len(queries) : \E r \in ResponseInts : Preference_init(q, r)
  \/ \E q \in 1..Len(queries) : \E r \in ResponseInts : WeakComparison_init(q, r)
  \/ \E q \in 1..Len(queries) :
       \E r \in RankingInputs(queries[q].K) : FullRanking_init(q, r)

Spec == Init /\ [][Next]_vars

\* ----------------------------------------------------------- visualize()
\* the lines the user may type at a prompt
Lines ==
  {<<DigitChars[n + 1]>> : n \in 0..(MaxK + 1)}
  \cup {<<"-", "1">>, <<"+", "1">>, <<" ", "0">>, <<"0", "1">>,
        <<"1", ".", "0">>, <<"1", "_", "0">>, <<"a">>, <<>>}

\* line 78 / 115: the condition under which the selection is discarded
PreferenceQuery_rejects_no_lower(self, selection) ==
  ~isinteger(selection) \/ int(selection).value >= self.K
PreferenceQuery_rejects(self, selection) ==
  ~isinteger(selection) \/ ~contains1d(self.response_set, int(selection).value)

WeakComparisonQuery_rejects(self, selection) ==
  ~isinteger(selection) \/ ~contains1d(self.response_set, int(selection).value)

\* lines 154-158: out of range, or already chosen
FullRankingQuery_rejects_no_duplicate_check(self, response, selection) ==
  \/ ~isinteger(selection)
  \/ int(selection).value < 0
  \/ int(selection).value >= self.K
FullRankingQuery_rejects(self, response, selection) ==
  \/ ~isinteger(selection)
  \/ int(selection).value < 0
  \/ int(selection).value >= self.K
  \/ int(selection).value \in Range(response)

\* lines 161-163: append the remaining index and return; .item() raises
\* ValueError unless exactly one index remains
FullRankingQuery_finish(self, q, response) ==
  LET remaining_id == setdiff1d(self.response_set, response)
  IN  IF Len(remaining_id) = 1
      THEN [pc |-> "returned", q |-> q,
            response |-> Append(response, remaining_id[1]),
            i |-> Len(response) + 1, selection |-> viz.selection,
            ret |-> 0, ret_array |-> Append(response, remaining_id[1])]
      ELSE [pc |-> "raised", q |-> q, response |-> response,
            i |-> Len(response) + 1, selection |-> viz.selection,
            ret |-> 0, ret_array |-> <<>>]

\* the call, up to the first prompt
Query_visualize(q) ==
  /\ viz.pc = "idle"
  /\ q \in 1..Len(queries)
  /\ viz' = IF queries[q].kind = "FullRankingQuery" /\ ~(1 < queries[q].K)
            THEN FullRankingQuery_finish(queries[q], q, <<>>)
            ELSE [pc |-> "prompt", q |-> q, response |-> <<>>, i |-> 1,
                  selection |-> NoSelection, ret |-> 0, ret_array |-> <<>>]
  /\ lastCall' = [op |-> "visualize", q |-> q, arg |-> <<>>,
                  outcome |-> "None", ret |-> 0]
  /\ UNCHANGED <<queries, responses, stdin>>

\* one line typed at the prompt of PreferenceQuery.visualize
PreferenceQuery_input(line) ==
  /\ viz.pc = "prompt"
  /\ queries[viz.q].kind = "PreferenceQuery"
  /\ stdin' = line
  /\ viz' = IF PreferenceQuery_rejects(queries[viz.q], line)
            THEN [viz EXCEPT !.selection = NoSelection]
            ELSE [viz EXCEPT !.selection = [isNone |-> FALSE, text |-> line],
                             !.pc = "returned",
                             !.ret = int(line).value]
  /\ UNCHANGED <<queries, responses, lastCall>>

\* one line typed at the prompt of WeakComparisonQuery.visualize
WeakComparisonQuery_input(line) ==
  /\ viz.pc = "prompt"
  /\ queries[viz.q].kind = "WeakComparisonQuery"
  /\ stdin' = line
  /\ viz' = IF WeakComparisonQuery_rejects(queries[viz.q], line)
            THEN [viz EXCEPT !.selection = NoSelection]
            ELSE [viz EXCEPT !.selection = [isNone |-> FALSE, text |-> line],
                             !.pc = "returned",
                             !.ret = int(line).value]
  /\ UNCHANGED <<queries, responses, lastCall>>

\* one line typed at a prompt of FullRankingQuery.visualize
FullRankingQuery_input(line) ==
  /\ viz.pc = "prompt"
  /\ queries[viz.q].kind = "FullRankingQuery"
  /\ stdin' = line
  /\ LET self == queries[viz.q]
         response == Append(viz.response, int(line).value)
     IN  viz' = IF FullRankingQuery_rejects(self, viz.response, line)
                THEN [viz EXCEPT !.selection = NoSelection]
                ELSE IF viz.i + 1 < self.K
                THEN [viz EXCEPT !.selection = NoSelection,
                                 !.response = response,
                                 !.i = viz.i + 1]
                ELSE FullRankingQuery_finish(self, viz.q, response)
  /\ UNCHANGED <<queries, responses, lastCall>>

\* the caller takes the returned value (or the exception)
Query_visualize_exit ==
  /\ viz.pc \in {"returned", "raised"}
  /\ viz' = Idle
  /\ stdin' = <<>>
  /\ UNCHANGED <<queries, responses, lastCall>>

NextViz ==
  \/ \E slate \in Slates : PreferenceQuery_init(slate)
  \/ \E slate \in Slates : WeakComparisonQuery_init(slate)
  \/ \E slate \in Slates : FullRankingQuery_init(slate)
  \/ \E q \in 1..Len(queries) : \E slate \in Slates : SetSlate(q, slate)
  \/ \E q \in 1..Len(queries) : Query_visualize(q)
  \/ \E line \in Lines : PreferenceQuery_input(line)
  \/ \E line \in Lines : WeakComparisonQuery_input(line)
  \/ \E line \in Lines : FullRankingQuery_input(line)
  \/ Query_visualize_exit

SpecViz == Init /\ [][NextViz]_vars

TypeOK ==
  /\ Len(queries) + Len(responses) <= MaxObjects
  /\ viz.pc \in {"idle", "prompt", "returned", "raised"}

\* ------------------------------------------------------------ properties
QueryKinds == {"PreferenceQuery", "WeakComparisonQuery", "FullRankingQuery"}

\* the cardinality constraint of a query type
CardinalityOK(kind, K) == IF kind = "WeakComparisonQuery" THEN K = 2 ELSE K >= 2

\* the response space a query of this type and size is meant to have
PermutationsOf(K) == {p \in [1..K -> 0..(K - 1)] : \A i, j \in 1..K : p[i] = p[j] => i = j}

\* r is an element of response_set: an integer of the one-dimensional sets, a
\* whole row of the set of rankings
InResponseSet(r, query) ==
  \E i \in 1..Len(query.response_set) : query.response_set[i] = r

Determined(query) ==
  /\ query.K = Len(query.slate)
  /\ CASE query.kind = "PreferenceQuery" ->
            /\ Len(query.response_set) = query.K
            /\ Range(query.response_set) = 0..(query.K - 1)
       [] query.kind = "WeakComparisonQuery" ->
            /\ Len(query.response_set) = 3
            /\ Range(query.response_set) = {-1, 0, 1}
       [] query.kind = "FullRankingQuery" ->
            /\ Len(query.response_set) = Factorial(query.K)
            /\ Range(query.response_set) = PermutationsOf(query.K)

\* C1: FullRanking(q, r), for K >= 2 and r a length-K sequence over 0..K-1,
\* succeeds if and only if r is a permutation of 0..K-1.
C1_FullRankingIffPermutation ==
  (/\ lastCall.op = "FullRanking"
   /\ queries[lastCall.q].K >= 2
   /\ Len(lastCall.arg) = queries[lastCall.q].K
   /\ Range(lastCall.arg) \subseteq 0..(queries[lastCall.q].K - 1))
  => (lastCall.outcome = "ok" <=> IsPermutation(lastCall.arg, queries[lastCall.q].K))

\* C2: WeakComparison(q, r) on a query of slate size 2 fails with a validation
\* error exactly when r is not in {-1, 0, 1}; otherwise it succeeds and the
\* object retains q as its query and r as its response.
C2_WeakComparisonValidated ==
  (lastCall.op = "WeakComparison" /\ queries[lastCall.q].K = 2)
  => /\ lastCall.outcome = "AssertionError" <=> lastCall.arg \notin {-1, 0, 1}
     /\ lastCall.arg \in {-1, 0, 1} =>
          /\ lastCall.outcome = "ok"
          /\ lastCall.ret \in 1..Len(responses)
          /\ responses[lastCall.ret].query = lastCall.q
          /\ responses[lastCall.ret].response = lastCall.arg

\* C3: every existing response object has its response in the response_set
\* of the query it references, also after the query's slate was reassigned.
C3_ResponseInResponseSet ==
  \A i \in 1..Len(responses) :
    InResponseSet(responses[i].response, queries[responses[i].query])

\* C4: every existing PreferenceQuery and FullRankingQuery has K >= 2, every
\* WeakComparisonQuery has K = 2, and a slate violating the constraint is
\* rejected by the constructor and by the slate setter alike.
C4_CardinalityKept ==
  /\ \A q \in 1..Len(queries) : CardinalityOK(queries[q].kind, queries[q].K)
  /\ lastCall.op \in QueryKinds =>
       (~CardinalityOK(lastCall.op, Len(lastCall.arg))
          => lastCall.outcome = "AssertionError")
  /\ lastCall.op = "slate.setter" =>
       (~CardinalityOK(queries[lastCall.q].kind, Len(lastCall.arg))
          => lastCall.outcome = "AssertionError")

\* C5: PreferenceQuery(slate) succeeds when K >= 2, and response_set is then
\* exactly the integers 0..K-1; with K < 2 it fails with a validation error
\* and no query object is returned.
C5_PreferenceQueryConstruction ==
  lastCall.op = "PreferenceQuery" =>
    IF Len(lastCall.arg) >= 2
    THEN /\ lastCall.outcome = "ok"
         /\ lastCall.ret = Len(queries)
         /\ queries[lastCall.ret].kind = "PreferenceQuery"
         /\ queries[lastCall.ret].K = Len(lastCall.arg)
         /\ Len(queries[lastCall.ret].response_set) = Len(lastCall.arg)
         /\ Range(queries[lastCall.ret].response_set) = 0..(Len(lastCall.arg) - 1)
    ELSE /\ lastCall.outcome = "AssertionError"
         /\ lastCall.ret = 0

C5_Witness ==
  /\ lastCall.op = "PreferenceQuery"
  /\ lastCall.outcome = "ok"
  /\ Len(lastCall.arg) = 3
  /\ queries[lastCall.ret].response_set = <<0, 1, 2>>

\* C6: the response_set of a FullRankingQuery with K >= 2 has exactly K! rows,
\* pairwise distinct, each a permutation of 0..K-1, and FullRanking(query, row)
\* accepts every row.
C6_FullRankingResponseSet ==
  /\ \A q \in 1..Len(queries) :
       (queries[q].kind = "FullRankingQuery" /\ queries[q].K >= 2) =>
         LET rs == queries[q].response_set
         IN  /\ Len(rs) = Factorial(queries[q].K)
             /\ \A i, j \in 1..Len(rs) : rs[i] = rs[j] => i = j
             /\ \A i \in 1..Len(rs) : IsPermutation(rs[i], queries[q].K)
             /\ \A i \in 1..Len(rs) : FullRanking_assert(queries[q], rs[i])
  /\ (/\ lastCall.op = "FullRanking"
      /\ queries[lastCall.q].K >= 2
      /\ InResponseSet(lastCall.arg, queries[lastCall.q]))
     => /\ lastCall.outcome = "ok"
        /\ responses[lastCall.ret].response = lastCall.arg

C6_Witness ==
  /\ lastCall.op = "FullRanking"
  /\ lastCall.outcome = "ok"
  /\ queries[lastCall.q].K = 3
  /\ Len(queries[lastCall.q].response_set) = 6
  /\ lastCall.arg = <<2, 0, 1>>

\* C7: Preference(q, r) with r in [0, K) succeeds and the object has
\* response = r and query = q; with an integer r outside [0, K) it fails with
\* a validation error.
C7_PreferenceRoundTrip ==
  lastCall.op = "Preference" =>
    IF lastCall.arg \in 0..(queries[lastCall.q].K - 1)
    THEN /\ lastCall.outcome = "ok"
         /\ lastCall.ret = Len(responses)
         /\ responses[lastCall.ret].kind = "Preference"
         /\ responses[lastCall.ret].response = lastCall.arg
         /\ responses[lastCall.ret].query = lastCall.q
    ELSE /\ lastCall.outcome = "AssertionError"
         /\ lastCall.ret = 0

C7_Witness ==
  /\ lastCall.op = "Preference"
  /\ lastCall.outcome = "ok"
  /\ queries[lastCall.q].K = 3
  /\ responses[lastCall.ret].response = 1

\* C9: after any sequence of slate assignments a query's K is the size of the
\* most recently assigned slate and its response_set is exactly the one its
\* type and that K determine.
C9_SlateReassignmentResets ==
  /\ \A q \in 1..Len(queries) : Determined(queries[q])
  /\ lastCall.op = "slate.setter" =>
       /\ queries[lastCall.q].slate = lastCall.arg
       /\ queries[lastCall.q].K = Len(lastCall.arg)

\* a Preference with response 2 exists, so its query had K = 3 when it was
\* built; the query's slate has since been reassigned to two trajectories
C9_Witness ==
  /\ lastCall.op = "slate.setter"
  /\ \E i \in 1..Len(responses) :
       /\ responses[i].kind = "Preference"
       /\ responses[i].response = 2
       /\ responses[i].query = lastCall.q
       /\ queries[lastCall.q].K = 2
       /\ queries[lastCall.q].response_set = <<0, 1>>

\* the response space the prompt of a single-choice query announces
AnnouncedChoices(query) ==
  IF query.kind = "PreferenceQuery" THEN 0..(query.K - 1) ELSE {-1, 0, 1}

\* one line read at a prompt of FullRankingQuery.visualize
C8_RankingStep ==
  (viz.pc = "prompt" /\ queries[viz.q].kind = "FullRankingQuery") =>
    LET K == queries[viz.q].K
        v == int(stdin').value
        rejected == \/ ~isinteger(stdin')
                    \/ v \notin 0..(K - 1)
                    \/ v \in Range(viz.response)
        accepted == Append(viz.response, v)
    IN  IF rejected
        THEN viz'.pc = "prompt" /\ viz'.response = viz.response
        ELSE IF Len(accepted) < K - 1
        THEN viz'.pc = "prompt" /\ viz'.response = accepted
        ELSE /\ viz'.pc = "returned"
             /\ IsPermutation(viz'.ret_array, K)
             /\ SubSeq(viz'.ret_array, 1, K - 1) = accepted

C8_RankingState ==
  (viz.pc # "idle" /\ queries[viz.q].kind = "FullRankingQuery") =>
    /\ viz.pc # "raised"
    /\ viz.pc = "prompt" =>
         /\ Len(viz.response) < queries[viz.q].K - 1
         /\ \A i, j \in 1..Len(viz.response) :
              viz.response[i] = viz.response[j] => i = j
    /\ viz.pc = "returned" => IsPermutation(viz.ret_array, queries[viz.q].K)

\* C8: FullRankingQuery.visualize fills the ranks from the most preferred
\* downward; a line that is no integer, out of [0, K-1] or already selected
\* is re-prompted and leaves the partial ranking alone; after K-1 accepted
\* selections the remaining index is appended without a prompt; the result is
\* a permutation of 0..K-1 whose first K-1 entries are the accepted
\* selections in order.
C8_FullRankingVisualize == [][C8_RankingStep]_vars /\ []C8_RankingState

C8_Witness ==
  /\ viz.pc = "returned"
  /\ queries[viz.q].kind = "FullRankingQuery"
  /\ queries[viz.q].K = 3
  /\ stdin = <<"0">>
  /\ viz.ret_array = <<2, 0, 1>>

\* one line read at the prompt of a single-choice query
C10_ChoiceStep ==
  (viz.pc = "prompt"
   /\ queries[viz.q].kind \in {"PreferenceQuery", "WeakComparisonQuery"}) =>
    IF isinteger(stdin') /\ int(stdin').value \in AnnouncedChoices(queries[viz.q])
    THEN /\ viz'.pc = "returned"
         /\ viz'.ret = int(stdin').value
         /\ InResponseSet(viz'.ret, queries[viz.q])
    ELSE viz'.pc = "prompt"

\* C10: in PreferenceQuery.visualize and WeakComparisonQuery.visualize every
\* line that is no integer literal, or whose value is outside the response
\* set, is re-prompted without exception or return; the call returns at the
\* first valid line, with that line's integer, a member of response_set.
C10_ChoicePromptAbsorbsErrors == [][C10_ChoiceStep]_vars

C10_Witness ==
  /\ viz.pc = "returned"
  /\ queries[viz.q].kind = "WeakComparisonQuery"
  /\ stdin = <<"-", "1">>
  /\ viz.ret = -1
====
